---------------------------- MODULE Spec2Model ----------------------------
(***************************************************************************)
(* lnurl-pay chat server: the /api/send-text/callback handler, the         *)
(* settlement ("invoice_updated") handler it installs, the in-memory       *)
(* message feed, the sqlite inserts and the websocket subscriber set       *)
(* (src/src/index.ts, the payerdata variant, lines 190-454), and the       *)
(* callback tokens of the token variant (src/index.ts).                    *)
(*                                                                         *)
(* Strings are sequences of one-character strings; an optional value is a  *)
(* sequence of length 0 (undefined) or 1.                                  *)
(*                                                                         *)
(* A step is what runs between two awaits or one callback of the event     *)
(* loop.  The settlement streams emit events (streamEmit) and the listener *)
(* handles them in the order of emission (invoice_updated).  sent[s] is    *)
(* what socket.send was called with on connection s and returned from.     *)
(* log, applied, observed and issued are history variables: the program    *)
(* reads none of them.                                                     *)
(*                                                                         *)
(* Spec, ValidationSpec and FairSpec are runs without faults of the        *)
(* environment.  FaultSpec adds them: a connection that is closing while   *)
(* it is still registered, a rejected subscription, a stream error, and    *)
(* the unhandled rejection of a failed insert.  FeedSpec starts from       *)
(* tables around LIMIT rows, PresenceSpec opens MaxSockets connections,    *)
(* TokenSpec is the token variant.                                         *)
(***************************************************************************)
EXTENDS Integers, Sequences, FiniteSets, TLC

\* ------------------------------------------------------------------ bounds
MaxCallbacks == 2      \* callback invocations in a run
MaxEvents    == 2      \* settlement-stream events delivered in a run
MaxSubs      == 2      \* websocket connections opened in a run
MaxClock     == 1      \* largest value new Date().getTime() returns
MaxSockets   == 3      \* websocket connections opened in a run of PresenceSpec
MaxOffers    == 2      \* /api/sendText requests in a run of TokenSpec

\* ------------------------------------------------------- program constants
minSendable    == 10000
maxSendable    == 10000
commentAllowed == 144
MinAmountCheck == 10
LIMIT          == 1000

\* ----------------------------------------------------------------- strings
None    == <<>>
Some(x) == <<x>>
IsSome(o) == Len(o) = 1
Get(o)  == o[1]

\* The string of n characters ch.
Rep(ch, n) == [i \in 1..n |-> ch]

Digits == {"0", "1", "2", "3", "4", "5", "6", "7", "8", "9"}
DigitVal(ch) ==
    CASE ch = "0" -> 0 [] ch = "1" -> 1 [] ch = "2" -> 2 [] ch = "3" -> 3
      [] ch = "4" -> 4 [] ch = "5" -> 5 [] ch = "6" -> 6 [] ch = "7" -> 7
      [] ch = "8" -> 8 [] ch = "9" -> 9

\* JavaScript numbers as far as the handler tells them apart.
Undefined == [kind |-> "undefined", v |-> 0]
NaN       == [kind |-> "NaN", v |-> 0]
Num(n)    == [kind |-> "number", v |-> n]

RECURSIVE SkipSpace(_)
SkipSpace(s) == IF s # <<>> /\ Head(s) = " " THEN SkipSpace(Tail(s)) ELSE s

RECURSIVE DigitPrefix(_)
DigitPrefix(s) ==
    IF s # <<>> /\ Head(s) \in Digits THEN <<Head(s)>> \o DigitPrefix(Tail(s)) ELSE <<>>

RECURSIVE DecimalValue(_, _)
DecimalValue(ds, acc) ==
    IF ds = <<>> THEN acc ELSE DecimalValue(Tail(ds), 10 * acc + DigitVal(Head(ds)))

\* Number.parseInt(s, 10): leading blanks and one sign are skipped, the longest
\* prefix of decimal digits is converted, and no digit at all gives NaN.
parseInt(s) ==
    LET t    == SkipSpace(s)
        neg  == t # <<>> /\ Head(t) = "-"
        u    == IF t # <<>> /\ Head(t) \in {"-", "+"} THEN Tail(t) ELSE t
        ds   == DigitPrefix(u)
    IN  IF ds = <<>> THEN NaN
        ELSE Num(IF neg THEN 0 - DecimalValue(ds, 0) ELSE DecimalValue(ds, 0))

\* JSON.parse restricted to the payloads of PayerdataParams: the empty object,
\* an object with one string member "name", and text that is no JSON at all.
JsonNameOpen  == <<"{", "\"", "n", "a", "m", "e", "\"", ":", "\"">>
JsonNameClose == <<"\"", "}">>
NameChars     == {"a", "b", "c", "o"}
IsNameObject(s) ==
    /\ Len(s) >= Len(JsonNameOpen) + Len(JsonNameClose)
    /\ SubSeq(s, 1, Len(JsonNameOpen)) = JsonNameOpen
    /\ SubSeq(s, Len(s) - 1, Len(s)) = JsonNameClose
    /\ \A i \in (Len(JsonNameOpen) + 1)..(Len(s) - 2) : s[i] \in NameChars
JsonThrows(s) == ~(s = <<"{", "}">> \/ IsNameObject(s))
JsonParse(s) ==
    IF IsNameObject(s)
    THEN [name |-> Some(SubSeq(s, Len(JsonNameOpen) + 1, Len(s) - 2))]
    ELSE [name |-> None]
JsonName(n) == JsonNameOpen \o n \o JsonNameClose


\* ------------------------------------------------------------------ inputs
Str5000  == <<"5", "0", "0", "0">>
Str10000 == <<"1", "0", "0", "0", "0">>
Str20000 == <<"2", "0", "0", "0", "0">>
AmountParams ==
    {None, Some(<<>>), Some(<<"a", "b", "c">>), Some(<<"-", "5">>), Some(<<"0">>),
     Some(<<"9">>), Some(<<"1", "0">>), Some(Str5000), Some(Str10000),
     Some(Str10000 \o <<"x">>), Some(Str20000)}
CommentParams ==
    {None, Some(<<>>), Some(<<"h", "i">>), Some(Rep("x", commentAllowed)),
     Some(Rep("x", commentAllowed + 1))}
PayerdataParams ==
    {None, Some(<<>>), Some(<<"{">>), Some(<<"{", "}">>), Some(JsonName(<<>>)),
     Some(JsonName(<<"b", "o", "b">>))}
Queries ==
    [amount : AmountParams, comment : CommentParams, payerdata : PayerdataParams]

\* The queries of the runs with several invocations: two that pass with
\* different amount, comment and payer name, one that fails a check, one
\* whose payerdata does not parse.
QueryA == [amount |-> Some(Str10000), comment |-> Some(<<"h", "i">>),
           payerdata |-> Some(JsonName(<<"b", "o", "b">>))]
QueryB == [amount |-> Some(Str20000), comment |-> Some(Rep("x", commentAllowed)),
           payerdata |-> None]
QueryLowAmount == [QueryA EXCEPT !.amount = Some(<<"9">>)]
QueryBadJson   == [QueryB EXCEPT !.payerdata = Some(<<"{">>)]
RunQueries == {QueryA, QueryB, QueryLowAmount, QueryBadJson}

\* Queries that pass, one for each kind of payerdata that parses: a name, no
\* parameter, an empty parameter, an object without name, an empty name.
NameQueries ==
    {[QueryA EXCEPT !.payerdata = pd] :
        pd \in {Some(JsonName(<<"b", "o", "b">>)), None, Some(<<>>),
                Some(<<"{", "}">>), Some(JsonName(<<>>))}}

OldRow == [text |-> <<"o", "l", "d">>, timestamp |-> 0]
InitialTables == {<<OldRow>>}

\* A table of n rows written by earlier runs, oldest first, by id.
OldRows(n) == [i \in 1..n |-> [text |-> <<"o", "l", "d">>, timestamp |-> i - n]]
\* The tables FeedSpec starts from: empty, short, and around LIMIT rows.
FeedTables == {OldRows(n) : n \in {0, 1, LIMIT - 1, LIMIT, LIMIT + 1}}

Callbacks == 1..MaxCallbacks
Subs      == 1..MaxSubs
Sockets   == 1..MaxSockets
Clock     == 0..MaxClock

\* ------------------------------------------------------------------- state
VARIABLES
    query,        \* query[c]: the query string of invocation c, once received
    pc,           \* pc[c]: where the handler of invocation c stands
    ctx,          \* ctx[c]: amount, comment, payerdata captured by the closure
    reply,        \* reply[c]: the HTTP response of invocation c, once sent
    invoice,      \* invoice[c]: the invoice lnService.createInvoice returned
    observed,     \* the events the settlement streams observed, in order
    streamQ,      \* observed events whose invoice_updated listener has not run yet
    messages,     \* the in-memory feed
    table,        \* rows of table message, by id
    dbRuns,       \* the INSERTs issued by db.run, in order, with their outcome
    socketUsers,  \* the websocket connections registered
    opened,       \* number of websocket connections opened so far
    sent,         \* sent[s]: what socket.send was called with on connection s
    log,          \* log[c]: history of invocation c (what happened, in order)
    applied,      \* history of the listener's applications, in order
    closing,      \* registered connections whose socket is not open any more
    terminated,   \* the process has exited
    request,      \* token variant: the counter the tokens are derived from
    callbacks,    \* token variant: the set of live tokens
    timers,       \* token variant: tokens whose one-hour timer has not fired
    issued        \* token variant: history of the tokens issued, in order

faultVars == <<closing, terminated>>
tokenVars == <<request, callbacks, timers, issued>>

vars == <<query, pc, ctx, reply, invoice, observed, streamQ, messages, table,
          dbRuns, socketUsers, opened, sent, log, applied, closing, terminated,
          request, callbacks, timers, issued>>

\* ---------------------------------------------------------- pure functions
Min(a, b) == IF a <= b THEN a ELSE b

\* db.all("SELECT text, timestamp FROM message ORDER BY id ASC LIMIT 1000")
SelectMessages(t) == SubSeq(t, 1, Min(Len(t), LIMIT))

Truthy(o) == IsSome(o) /\ Get(o) # <<>>

ParseThrows(params) == Truthy(params.payerdata) /\ JsonThrows(Get(params.payerdata))

parseSendTextCallbackQueryParams(params) ==
    [amount    |-> IF Truthy(params.amount) THEN parseInt(Get(params.amount))
                   ELSE Undefined,
     comment   |-> params.comment,
     payerdata |-> IF Truthy(params.payerdata)
                   THEN Some(JsonParse(Get(params.payerdata))) ELSE None]

\* !amount || amount < 10 || Number.isNaN(amount)
AmountRejected(a) ==
    \/ a.kind # "number"
    \/ a.v = 0
    \/ a.v < MinAmountCheck

CommentMissing(cm) == ~Truthy(cm)
CommentTooLong(cm) == Len(Get(cm)) > commentAllowed

ErrorReply(reason) == [code |-> 400, status |-> "ERROR", reason |-> reason]
AmountReason  == "You must provide an amount and it must be higher than or equal to 10 sats."
MissingReason == "You must provide a comment."
LengthReason  == "Comment cannot be larger than 144 letters."
ThrownReply(message) == [code |-> 500, status |-> "Internal Server Error", reason |-> message]
ParseMessage    == "Could not parse query params"
UpstreamMessage == "createInvoice failed"

\* The checks of the handler, in the order of the source; <<>> when all pass.
Validate(p) ==
    IF AmountRejected(p.amount) THEN Some(ErrorReply(AmountReason))
    ELSE IF CommentMissing(p.comment) THEN Some(ErrorReply(MissingReason))
    ELSE IF CommentTooLong(p.comment) THEN Some(ErrorReply(LengthReason))
    ELSE None

HasName(payerdata) == IsSome(payerdata) /\ Truthy(Get(payerdata).name)

responseMetadata == <<"M">>
dataToHash(p, params) ==
    IF HasName(p.payerdata) THEN responseMetadata \o Get(params.payerdata)
    ELSE responseMetadata

NameSeparator == <<":", " ", " ">>
commentDescedName(payerdata, comment) ==
    IF HasName(payerdata) THEN comment \o NameSeparator \o Get(Get(payerdata).name)
    ELSE comment

\* payerdata?.name ? (payerdata.name + ":  " + comment) : comment
nameDescedComment(payerdata, comment) ==
    IF HasName(payerdata) THEN Get(Get(payerdata).name) \o NameSeparator \o comment
    ELSE comment

NumUsers(n)  == [type |-> "NUM_USERS", data |-> n]
Message(row) == [type |-> "MESSAGE", data |-> row]

\* How a broadcast ends: every socket.send returned ("sent"); one threw and
\* whoever called the handler swallowed the exception ("thrown"); one threw and
\* the uncaught exception ended the process ("fatal").
Outcomes == {"sent", "thrown", "fatal"}

\* socket.send throws only on a connection that is not open; whether it throws
\* or drops the text there is up to the websocket library.
CanEnd(users, outcome) == outcome = "sent" \/ users \cap closing # {}

\* The connections whose send returned with the text on its way: all that are
\* open, or, when a send throws, those forEach visited before it (a Set is
\* visited in the order of insertion, the order of the connection numbers).
Reached(users, outcome) ==
    IF outcome = "sent" THEN users \ closing
    ELSE {s \in users : \A f \in users \cap closing : s < f}

sendToFirstWebSocketConnection(users, out, text) ==
    [s \in Sockets |-> IF s \in users /\ \A u \in users : s <= u
                    THEN Append(out[s], text) ELSE out[s]]

sendToAllWebSocketConnections(users, out, text) ==
    [s \in Sockets |-> IF s \in users THEN Append(out[s], text) ELSE out[s]]


\* ----------------------------------------------------------------- initial
InitRest ==
    /\ query = [c \in Callbacks |-> None]
    /\ pc = [c \in Callbacks |-> "idle"]
    /\ ctx = [c \in Callbacks |-> None]
    /\ reply = [c \in Callbacks |-> None]
    /\ invoice = [c \in Callbacks |-> None]
    /\ observed = <<>>
    /\ streamQ = <<>>
    /\ dbRuns = <<>>
    /\ socketUsers = {}
    /\ opened = 0
    /\ sent = [s \in Sockets |-> <<>>]
    /\ log = [c \in Callbacks |-> <<>>]
    /\ applied = <<>>
    /\ closing = {}
    /\ terminated = FALSE
    /\ request = 0
    /\ callbacks = {}
    /\ timers = {}
    /\ issued = <<>>

\* The state once the module is loaded: messages is read from the table.
Init ==
    /\ table \in InitialTables
    /\ messages = SelectMessages(table)
    /\ InitRest

\* The process runs.
Running == ~terminated

\* Invocations are numbered in the order they arrive.
Arrives(c) ==
    /\ Running
    /\ pc[c] = "idle"
    /\ \A d \in Callbacks : d < c => pc[d] # "idle"

\* ------------------------------------------------- /api/send-text/callback
RejectedPcFallsThrough == "createInvoice"

\* Where the handler stands after it answered 400: its return statement.
RejectedPc == "returned"

\* parseSendTextCallbackQueryParams throws: the handler's promise rejects and
\* the framework answers 500.
callbackParseThrows(c, q) ==
    /\ Arrives(c)
    /\ ParseThrows(q)
    /\ query' = [query EXCEPT ![c] = Some(q)]
    /\ pc' = [pc EXCEPT ![c] = "thrown"]
    /\ reply' = [reply EXCEPT ![c] = Some(ThrownReply(ParseMessage))]
    /\ UNCHANGED <<ctx, invoice, observed, streamQ, messages, table, dbRuns,
                   socketUsers, opened, sent, log, applied>>
    /\ UNCHANGED <<faultVars, tokenVars>>

\* One of the three checks fails: 400 and return.
callbackRejected(c, q) ==
    /\ Arrives(c)
    /\ ~ParseThrows(q)
    /\ LET p == parseSendTextCallbackQueryParams(q) IN
        /\ IsSome(Validate(p))
        /\ query' = [query EXCEPT ![c] = Some(q)]
        /\ ctx' = [ctx EXCEPT ![c] = Some(p)]
        /\ reply' = [reply EXCEPT ![c] = Validate(p)]
        /\ pc' = [pc EXCEPT ![c] = RejectedPc]
    /\ UNCHANGED <<invoice, observed, streamQ, messages, table, dbRuns,
                   socketUsers, opened, sent, log, applied>>
    /\ UNCHANGED <<faultVars, tokenVars>>

\* All checks pass: lnService.createInvoice is called and awaited.
callbackAccepted(c, q) ==
    /\ Arrives(c)
    /\ ~ParseThrows(q)
    /\ LET p == parseSendTextCallbackQueryParams(q) IN
        /\ ~IsSome(Validate(p))
        /\ query' = [query EXCEPT ![c] = Some(q)]
        /\ ctx' = [ctx EXCEPT ![c] = Some(p)]
        /\ pc' = [pc EXCEPT ![c] = "createInvoice"]
    /\ UNCHANGED <<reply, invoice, observed, streamQ, messages, table, dbRuns,
                   socketUsers, opened, sent, log, applied>>
    /\ UNCHANGED <<faultVars, tokenVars>>

\* The invoice createInvoice returns for invocation c; tokens is amount / 1000,
\* kept here in the unit of amount.
NewInvoice(c) ==
    [id               |-> c,
     request          |-> <<"lnbc", c>>,
     mtokens          |-> Get(ctx[c]).amount.v,
     description_hash |-> [sha256 |-> dataToHash(Get(ctx[c]), Get(query[c]))]]

PayReply(inv) ==
    [code |-> 200, pr |-> inv.request, successAction |-> "null", disposable |-> FALSE]

NoReplyAfterInvoice(c, inv) == reply[c]

\* response.send({pr: invoice.request, ...}) once createInvoice has resolved.
ReplyAfterInvoice(c, inv) == Some(PayReply(inv))

\* createInvoice resolves: the response is sent, then subscribeToInvoice is
\* called and awaited.
createInvoiceResolved(c) ==
    /\ Running
    /\ pc[c] = "createInvoice"
    /\ LET inv == NewInvoice(c) IN
        /\ invoice' = [invoice EXCEPT ![c] = Some(inv)]
        /\ reply' = [reply EXCEPT ![c] = ReplyAfterInvoice(c, inv)]
    /\ pc' = [pc EXCEPT ![c] = "subscribe"]
    /\ log' = [log EXCEPT ![c] = @ \o
                 (IF IsSome(ReplyAfterInvoice(c, NewInvoice(c)))
                  THEN <<"invoice", "response", "subscribe">>
                  ELSE <<"invoice", "subscribe">>)]
    /\ UNCHANGED <<query, ctx, observed, streamQ, messages, table, dbRuns,
                   socketUsers, opened, sent, applied>>
    /\ UNCHANGED <<faultVars, tokenVars>>

\* createInvoice rejects: the handler's promise rejects, the framework answers 500.
createInvoiceRejected(c) ==
    /\ Running
    /\ pc[c] = "createInvoice"
    /\ pc' = [pc EXCEPT ![c] = "thrown"]
    /\ reply' = [reply EXCEPT ![c] = Some(ThrownReply(UpstreamMessage))]
    /\ UNCHANGED <<query, ctx, invoice, observed, streamQ, messages, table, dbRuns,
                   socketUsers, opened, sent, log, applied>>
    /\ UNCHANGED <<faultVars, tokenVars>>

\* subscribeToInvoice has returned: sub.on("invoice_updated", ...) is attached.
subscribed(c) ==
    /\ Running
    /\ pc[c] = "subscribe"
    /\ pc' = [pc EXCEPT ![c] = "waiting"]
    /\ log' = [log EXCEPT ![c] = Append(@, "listen")]
    /\ UNCHANGED <<query, ctx, reply, invoice, observed, streamQ, messages, table,
                   dbRuns, socketUsers, opened, sent, applied>>
    /\ UNCHANGED <<faultVars, tokenVars>>


\* ------------------------------------------------------- settlement stream
\* The subscription of invoice c emits an invoice_updated event. A stream may
\* repeat a confirmed invoice; it does not report an invoice unconfirmed
\* after it reported it confirmed.
streamEmit(c, confirmed) ==
    /\ Running
    /\ pc[c] = "waiting"
    /\ Len(observed) < MaxEvents
    /\ confirmed \/ \A i \in DOMAIN observed :
                        observed[i].id = c => ~observed[i].is_confirmed
    /\ observed' = Append(observed, [id |-> c, is_confirmed |-> confirmed])
    /\ streamQ' = Append(streamQ, [id |-> c, is_confirmed |-> confirmed])
    /\ UNCHANGED <<query, pc, ctx, reply, invoice, messages, table, dbRuns,
                   socketUsers, opened, sent, log, applied>>
    /\ UNCHANGED <<faultVars, tokenVars>>

IsConfirmedNegated(ev) == ~ev.is_confirmed
IsConfirmedAlways(ev)  == TRUE

\* if (invoice.is_confirmed)
IsConfirmed(ev) == ev.is_confirmed

\* The variables of the invocation that arrived last, as if they were shared.
ClosureShared(c) ==
    Get(ctx[CHOOSE d \in Callbacks :
                IsSome(ctx[d]) /\ \A e \in Callbacks : IsSome(ctx[e]) => e <= d])

\* The variables amount, comment, payerdata the listener of invocation c closes over.
Closure(c) == Get(ctx[c])

messagesUnshift(msgs, m) == <<m>> \o msgs
messagesKeep(msgs, m) == msgs
messagesShift(msgs, m) == Tail(Append(msgs, m))

\* messages.push(m)
messagesPush(msgs, m) == Append(msgs, m)

\* db.run("INSERT INTO message (text, timestamp) VALUES ($text, $timestamp)")
dbRun(runs, row) == Append(runs, [row |-> row, status |-> "pending"])

\* The invoice_updated listener runs on the oldest event not handled yet;
\* timestamp is what new Date().getTime() returns in it, outcome how its
\* broadcast ends.
invoice_updated(timestamp, outcome) ==
    /\ Running
    /\ streamQ # <<>>
    /\ LET ev   == Head(streamQ)
           c    == ev.id
           text == nameDescedComment(Closure(c).payerdata, Get(Closure(c).comment))
           row  == [text |-> text, timestamp |-> timestamp]
       IN
        /\ streamQ' = Tail(streamQ)
        /\ log' = [log EXCEPT ![c] =
                     Append(@, IF ev.is_confirmed THEN "settled" ELSE "unsettled")]
        /\ IF IsConfirmed(ev)
           THEN /\ CanEnd(socketUsers, outcome)
                /\ dbRuns' = dbRun(dbRuns, row)
                /\ messages' = messagesPush(messages, row)
                /\ sent' = sendToAllWebSocketConnections(
                               Reached(socketUsers, outcome), sent, Message(row))
                /\ applied' = Append(applied,
                                 [id |-> c, row |-> row, users |-> socketUsers,
                                  failed |-> socketUsers \cap closing])
                /\ terminated' = (outcome = "fatal")
           ELSE /\ outcome = "sent"
                /\ UNCHANGED <<dbRuns, messages, sent, applied, terminated>>
    /\ UNCHANGED <<query, pc, ctx, reply, invoice, observed, table, socketUsers,
                   opened, closing>>
    /\ UNCHANGED tokenVars

\* The INSERT issued first among those pending completes, or fails.
dbRunDone(ok) ==
    /\ Running
    /\ \E i \in 1..Len(dbRuns) :
        /\ dbRuns[i].status = "pending"
        /\ \A j \in 1..(i - 1) : dbRuns[j].status # "pending"
        /\ dbRuns' = [dbRuns EXCEPT ![i].status = IF ok THEN "done" ELSE "failed"]
        /\ table' = IF ok THEN Append(table, dbRuns[i].row) ELSE table
    /\ UNCHANGED <<query, pc, ctx, reply, invoice, observed, streamQ, messages,
                   socketUsers, opened, sent, log, applied>>
    /\ UNCHANGED <<faultVars, tokenVars>>

\* ------------------------------------------------------------------ /api/ws
\* The close handler of the earlier variant: the connection is deleted and
\* nothing is sent.
onCloseSilent(users, out, text) == out

\* What the close handler does after socketUsers.delete(connection).
onClose(users, out, text) == sendToAllWebSocketConnections(users, out, text)

\* A connection is opened: it is registered, then NUM_USERS is broadcast.
wsConnect(s, outcome) ==
    /\ Running
    /\ s = opened + 1
    /\ s \in Sockets
    /\ CanEnd(socketUsers, outcome)
    /\ opened' = s
    /\ socketUsers' = socketUsers \cup {s}
    /\ sent' = sendToAllWebSocketConnections(
                   Reached(socketUsers', outcome), sent,
                   NumUsers(Cardinality(socketUsers')))
    /\ terminated' = (outcome = "fatal")
    /\ UNCHANGED <<query, pc, ctx, reply, invoice, observed, streamQ, messages,
                   table, dbRuns, log, applied, closing>>
    /\ UNCHANGED tokenVars

\* The "close" event of connection s: it is deleted, then NUM_USERS is broadcast.
wsClose(s, outcome) ==
    /\ Running
    /\ s \in socketUsers
    /\ CanEnd(socketUsers \ {s}, outcome)
    /\ socketUsers' = socketUsers \ {s}
    /\ closing' = closing \ {s}
    /\ sent' = onClose(Reached(socketUsers', outcome), sent,
                       NumUsers(Cardinality(socketUsers')))
    /\ terminated' = (outcome = "fatal")
    /\ UNCHANGED <<query, pc, ctx, reply, invoice, observed, streamQ, messages,
                   table, dbRuns, opened, log, applied>>
    /\ UNCHANGED tokenVars

\* ------------------------------------------------------------------ faults
\* The socket of a registered connection stops being open (the peer went
\* away, or the closing handshake began); its "close" event comes later.
wsClosing(s) ==
    /\ Running
    /\ s \in socketUsers \ closing
    /\ closing' = closing \cup {s}
    /\ UNCHANGED <<query, pc, ctx, reply, invoice, observed, streamQ, messages,
                   table, dbRuns, socketUsers, opened, sent, log, applied,
                   terminated>>
    /\ UNCHANGED tokenVars

\* await lnService.subscribeToInvoice rejects: the handler's promise rejects
\* after response.send, so the response stays as it was sent.
subscribeRejected(c) ==
    /\ Running
    /\ pc[c] = "subscribe"
    /\ pc' = [pc EXCEPT ![c] = "thrown"]
    /\ UNCHANGED <<query, ctx, reply, invoice, observed, streamQ, messages, table,
                   dbRuns, socketUsers, opened, sent, log, applied>>
    /\ UNCHANGED <<faultVars, tokenVars>>

\* The subscription of invoice c emits "error" and ends. The handler attached
\* no listener for it: an emitter that emits it unguarded throws, which ends
\* the process (fatal); one that looks for a listener first does not.
streamError(c, fatal) ==
    /\ Running
    /\ pc[c] = "waiting"
    /\ pc' = [pc EXCEPT ![c] = "ended"]
    /\ terminated' = fatal
    /\ UNCHANGED <<query, ctx, reply, invoice, observed, streamQ, messages, table,
                   dbRuns, socketUsers, opened, sent, log, applied, closing>>
    /\ UNCHANGED tokenVars

\* The promise of a failed db.run is rejected with nobody awaiting it and no
\* catch: the runtime reports the unhandled rejection, and ends the process
\* (fatal) or only warns, by its version and flags.
unhandledRejection(fatal) ==
    /\ Running
    /\ \E i \in 1..Len(dbRuns) :
        /\ dbRuns[i].status = "failed"
        /\ \A j \in 1..(i - 1) : dbRuns[j].status # "failed"
        /\ dbRuns' = [dbRuns EXCEPT ![i].status = "unhandled"]
    /\ terminated' = fatal
    /\ UNCHANGED <<query, pc, ctx, reply, invoice, observed, streamQ, messages,
                   table, socketUsers, opened, sent, log, applied, closing>>
    /\ UNCHANGED tokenVars

\* ----------------------------------------------- token variant (src/index.ts)
\* crypto.createHash("sha256").update(`${n}`).digest("hex"): the digest of
\* the counter value n, two counter values never giving the same digest.
Token(n) == <<"sha256", n>>
\* A path parameter that is the digest of no counter value.
Forged == <<"hex", 0>>
\* The tokens an invocation may present: issued, not issued yet, never issued.
PresentedTokens == {Token(n) : n \in 0..MaxOffers} \cup {Forged}
TokenQueries ==
    [amount : {Some(Str10000)}, comment : {None, Some(<<>>), Some(<<"h", "i">>)}]

OldText == [text |-> <<"o", "l", "d">>]

\* messagesFromDb.map(({ text }) => text)
TextsOf(rows) == [i \in DOMAIN rows |-> rows[i].text]

TokenInit ==
    /\ table = <<OldText>>
    /\ messages = TextsOf(SelectMessages(table))
    /\ InitRest

\* GET /api/sendText: a token is derived from the counter, added to the live
\* tokens, and a timer of one hour is started for it.
sendText ==
    /\ Running
    /\ Len(issued) < MaxOffers
    /\ LET callback == Token(request) IN
        /\ callbacks' = callbacks \cup {callback}
        /\ timers' = timers \cup {callback}
        /\ issued' = Append(issued, callback)
    /\ request' = request + 1
    /\ UNCHANGED <<query, pc, ctx, reply, invoice, observed, streamQ, messages, table,
                   dbRuns, socketUsers, opened, sent, log, applied>>
    /\ UNCHANGED faultVars

\* setTimeout(() => callbacks.delete(callback), 1000 * 60 * 60) fires.
callbackTimeout(t) ==
    /\ Running
    /\ t \in timers
    /\ timers' = timers \ {t}
    /\ callbacks' = callbacks \ {t}
    /\ UNCHANGED <<query, pc, ctx, reply, invoice, observed, streamQ, messages, table,
                   dbRuns, socketUsers, opened, sent, log, applied, request, issued>>
    /\ UNCHANGED faultVars

HasCallbackAlways(t) == TRUE

\* callbacks.has(callback)
HasCallback(t) == t \in callbacks

InvalidCallbackReason == "Invalid request. Missing callback"
TokenMissingReason    == "You must provide a comment"

\* GET /api/sendTextCallback/:callback with a token that is not live: 400.
sendTextCallbackInvalid(c, t, q) ==
    /\ Arrives(c)
    /\ ~HasCallback(t)
    /\ query' = [query EXCEPT ![c] =
                    Some([callback |-> t, amount |-> q.amount, comment |-> q.comment])]
    /\ reply' = [reply EXCEPT ![c] = Some(ErrorReply(InvalidCallbackReason))]
    /\ pc' = [pc EXCEPT ![c] = "returned"]
    /\ UNCHANGED <<ctx, invoice, observed, streamQ, messages, table, dbRuns,
                   socketUsers, opened, sent, log, applied>>
    /\ UNCHANGED <<faultVars, tokenVars>>

\* The token is live and the comment is missing or empty: 400.
sendTextCallbackNoComment(c, t, q) ==
    /\ Arrives(c)
    /\ HasCallback(t)
    /\ ~Truthy(q.comment)
    /\ query' = [query EXCEPT ![c] =
                    Some([callback |-> t, amount |-> q.amount, comment |-> q.comment])]
    /\ reply' = [reply EXCEPT ![c] = Some(ErrorReply(TokenMissingReason))]
    /\ pc' = [pc EXCEPT ![c] = "returned"]
    /\ UNCHANGED <<ctx, invoice, observed, streamQ, messages, table, dbRuns,
                   socketUsers, opened, sent, log, applied>>
    /\ UNCHANGED <<faultVars, tokenVars>>

\* The token is live and there is a comment: lnService.createInvoice is
\* called and awaited.
sendTextCallbackAccepted(c, t, q) ==
    /\ Arrives(c)
    /\ HasCallback(t)
    /\ Truthy(q.comment)
    /\ query' = [query EXCEPT ![c] =
                    Some([callback |-> t, amount |-> q.amount, comment |-> q.comment])]
    /\ ctx' = [ctx EXCEPT ![c] =
                  Some([callback |-> t, amount |-> q.amount, comment |-> q.comment])]
    /\ pc' = [pc EXCEPT ![c] = "createInvoice"]
    /\ UNCHANGED <<reply, invoice, observed, streamQ, messages, table, dbRuns,
                   socketUsers, opened, sent, log, applied>>
    /\ UNCHANGED <<faultVars, tokenVars>>

\* createInvoice resolves: the response is sent, then subscribeToInvoice is
\* called and awaited.
sendTextInvoiceResolved(c) ==
    /\ Running
    /\ pc[c] = "createInvoice"
    /\ LET inv == [id               |-> c,
                   request          |-> <<"lnbc", c>>,
                   mtokens          |-> parseInt(Get(Get(ctx[c]).amount)).v,
                   description_hash |-> [sha256 |-> responseMetadata]]
       IN  /\ invoice' = [invoice EXCEPT ![c] = Some(inv)]
           /\ reply' = [reply EXCEPT ![c] = Some(PayReply(inv))]
    /\ pc' = [pc EXCEPT ![c] = "subscribe"]
    /\ log' = [log EXCEPT ![c] = @ \o <<"invoice", "response", "subscribe">>]
    /\ UNCHANGED <<query, ctx, observed, streamQ, messages, table, dbRuns,
                   socketUsers, opened, sent, applied>>
    /\ UNCHANGED <<faultVars, tokenVars>>

\* The invoice_updated listener of the token variant runs on the oldest event
\* not handled yet.
sendTextInvoiceUpdated ==
    /\ Running
    /\ streamQ # <<>>
    /\ LET ev       == Head(streamQ)
           c        == ev.id
           comment  == Get(Get(ctx[c]).comment)
           callback == Get(ctx[c]).callback
       IN
        /\ streamQ' = Tail(streamQ)
        /\ log' = [log EXCEPT ![c] =
                     Append(@, IF ev.is_confirmed THEN "settled" ELSE "unsettled")]
        /\ IF ev.is_confirmed
           THEN /\ dbRuns' = dbRun(dbRuns, [text |-> comment])
                /\ messages' = messagesPush(messages, comment)
                /\ callbacks' = callbacks \ {callback}
                /\ sent' = sendToAllWebSocketConnections(socketUsers, sent, comment)
                /\ applied' = Append(applied,
                                 [id |-> c, row |-> [text |-> comment],
                                  users |-> socketUsers, callback |-> callback])
           ELSE UNCHANGED <<dbRuns, messages, callbacks, sent, applied>>
    /\ UNCHANGED <<query, pc, ctx, reply, invoice, observed, table, socketUsers,
                   opened, request, timers, issued>>
    /\ UNCHANGED faultVars

\* /api/receive-messages: the connection is registered; nothing is sent.
receiveMessagesConnect(s) ==
    /\ Running
    /\ s = opened + 1
    /\ s \in Sockets
    /\ opened' = s
    /\ socketUsers' = socketUsers \cup {s}
    /\ UNCHANGED <<query, pc, ctx, reply, invoice, observed, streamQ, messages,
                   table, dbRuns, sent, log, applied>>
    /\ UNCHANGED <<faultVars, tokenVars>>

\* The "close" event of connection s: it is deleted.
receiveMessagesClose(s) ==
    /\ Running
    /\ s \in socketUsers
    /\ socketUsers' = socketUsers \ {s}
    /\ UNCHANGED <<query, pc, ctx, reply, invoice, observed, streamQ, messages,
                   table, dbRuns, opened, sent, log, applied>>
    /\ UNCHANGED <<faultVars, tokenVars>>

\* ------------------------------------------------------------ specification
Next ==
    \/ \E c \in Callbacks, q \in RunQueries : callbackParseThrows(c, q)
    \/ \E c \in Callbacks, q \in RunQueries : callbackRejected(c, q)
    \/ \E c \in Callbacks, q \in RunQueries : callbackAccepted(c, q)
    \/ \E c \in Callbacks : createInvoiceResolved(c)
    \/ \E c \in Callbacks : createInvoiceRejected(c)
    \/ \E c \in Callbacks : subscribed(c)
    \/ \E c \in Callbacks, confirmed \in BOOLEAN : streamEmit(c, confirmed)
    \/ \E timestamp \in Clock, outcome \in Outcomes : invoice_updated(timestamp, outcome)
    \/ \E ok \in BOOLEAN : dbRunDone(ok)
    \/ \E s \in Subs, outcome \in Outcomes : wsConnect(s, outcome)
    \/ \E s \in Subs, outcome \in Outcomes : wsClose(s, outcome)

Spec == Init /\ [][Next]_vars

\* One invocation, every query of Queries, and its settlement.
NextOne ==
    \/ \E q \in Queries : callbackParseThrows(1, q)
    \/ \E q \in Queries : callbackRejected(1, q)
    \/ \E q \in Queries : callbackAccepted(1, q)
    \/ createInvoiceResolved(1)
    \/ createInvoiceRejected(1)
    \/ subscribed(1)
    \/ \E confirmed \in BOOLEAN : streamEmit(1, confirmed)
    \/ \E timestamp \in Clock, outcome \in Outcomes : invoice_updated(timestamp, outcome)

ValidationSpec == Init /\ [][NextOne]_vars

\* Startup on a table of FeedTables, then invocations that pass and settle.
FeedInit ==
    /\ table \in FeedTables
    /\ messages = SelectMessages(table)
    /\ InitRest

NextFeed ==
    \/ \E c \in Callbacks, q \in {QueryA, QueryB} : callbackAccepted(c, q)
    \/ \E c \in Callbacks : createInvoiceResolved(c)
    \/ \E c \in Callbacks : subscribed(c)
    \/ \E c \in Callbacks : streamEmit(c, TRUE)
    \/ \E timestamp \in Clock : invoice_updated(timestamp, "sent")
    \/ \E ok \in BOOLEAN : dbRunDone(ok)

FeedSpec == FeedInit /\ [][NextFeed]_vars

\* MaxSockets connections that open and close, beside one invocation that
\* passes, with any payerdata that parses, and settles.
NextPresence ==
    \/ \E s \in Sockets : wsConnect(s, "sent")
    \/ \E s \in Sockets : wsClose(s, "sent")
    \/ \E q \in NameQueries : callbackAccepted(1, q)
    \/ createInvoiceResolved(1)
    \/ subscribed(1)
    \/ streamEmit(1, TRUE)
    \/ \E timestamp \in Clock : invoice_updated(timestamp, "sent")

PresenceSpec == Init /\ [][NextPresence]_vars

\* Invocations that pass, their settlement, the connections, and the faults
\* of the environment after the response.
NextFault ==
    \/ \E c \in Callbacks : callbackAccepted(c, QueryA)
    \/ \E c \in Callbacks : createInvoiceResolved(c)
    \/ \E c \in Callbacks : subscribed(c)
    \/ \E c \in Callbacks : subscribeRejected(c)
    \/ \E c \in Callbacks : streamEmit(c, TRUE)
    \/ \E c \in Callbacks, fatal \in BOOLEAN : streamError(c, fatal)
    \/ \E timestamp \in Clock, outcome \in Outcomes : invoice_updated(timestamp, outcome)
    \/ \E ok \in BOOLEAN : dbRunDone(ok)
    \/ \E fatal \in BOOLEAN : unhandledRejection(fatal)
    \/ \E s \in Subs, outcome \in Outcomes : wsConnect(s, outcome)
    \/ \E s \in Subs : wsClosing(s)
    \/ \E s \in Subs, outcome \in Outcomes : wsClose(s, outcome)

FaultSpec == Init /\ [][NextFault]_vars

\* The token variant.
NextToken ==
    \/ sendText
    \/ \E t \in PresentedTokens : callbackTimeout(t)
    \/ \E c \in Callbacks, t \in PresentedTokens, q \in TokenQueries :
           sendTextCallbackInvalid(c, t, q)
    \/ \E c \in Callbacks, t \in PresentedTokens, q \in TokenQueries :
           sendTextCallbackNoComment(c, t, q)
    \/ \E c \in Callbacks, t \in PresentedTokens, q \in TokenQueries :
           sendTextCallbackAccepted(c, t, q)
    \/ \E c \in Callbacks : sendTextInvoiceResolved(c)
    \/ \E c \in Callbacks : createInvoiceRejected(c)
    \/ \E c \in Callbacks : subscribed(c)
    \/ \E c \in Callbacks, confirmed \in BOOLEAN : streamEmit(c, confirmed)
    \/ sendTextInvoiceUpdated
    \/ \E ok \in BOOLEAN : dbRunDone(ok)
    \/ \E s \in Subs : receiveMessagesConnect(s)
    \/ \E s \in Subs : receiveMessagesClose(s)

TokenSpec == TokenInit /\ [][NextToken]_vars

\* The listener of an emitted event is run: the event loop does not starve it.
FairSpec ==
    Spec /\ WF_vars(\E timestamp \in Clock, outcome \in Outcomes :
                        invoice_updated(timestamp, outcome))


\* ------------------------------------------------------ reading the state
RECURSIVE SelectSeq2(_, _, _)
\* The indices i of seq, in order, for which Keep[i] holds (Keep a set of indices).
SelectSeq2(seq, Keep, i) ==
    IF i > Len(seq) THEN <<>>
    ELSE (IF i \in Keep THEN <<seq[i]>> ELSE <<>>) \o SelectSeq2(seq, Keep, i + 1)

\* The comments pushed on the feed since startup: what follows the rows read
\* from the table when the process started.
SeedLen == Len(messages) - Len(applied)
Pushed  == SubSeq(messages, SeedLen + 1, Len(messages))

\* The MESSAGE events connection s was sent, in order.
MessagesSent(s) ==
    SelectSeq2(sent[s], {k \in DOMAIN sent[s] : sent[s][k].type = "MESSAGE"}, 1)

\* The applications made for invocation c.
AppliedFor(c) == {i \in DOMAIN applied : applied[i].id = c}

\* The handled events of invocation c that were confirmed.
SettledSeen(c) == {k \in DOMAIN log[c] : log[c][k] = "settled"}

IsPayReply(r) == IsSome(r) /\ Get(r).code = 200
IsErrorReply(r) == IsSome(r) /\ Get(r).code # 200

\* The history variable applied agrees with what the listener did to the
\* feed, to the database and to the sockets.
HistoryAgrees ==
    /\ SeedLen >= 0
    /\ Len(dbRuns) = Len(applied)
    /\ \A i \in DOMAIN applied :
        /\ dbRuns[i].row = applied[i].row
        /\ messages[SeedLen + i] = applied[i].row
    /\ \A s \in Subs :
        MessagesSent(s) =
            SelectSeq2([i \in DOMAIN applied |-> Message(applied[i].row)],
                       {i \in DOMAIN applied : s \in applied[i].users}, 1)

\* ------------------------------------------------------------------ claims

\* C1: at-most-once application. Whatever events the settlement stream of an
\* invoice delivers, its invocation makes at most one database insert, one
\* push on the feed and one MESSAGE broadcast: the applications made since
\* startup never outnumber the invocations that saw a confirmed event, and
\* no invocation is applied twice.
C1_AtMostOnce ==
    /\ \A c \in Callbacks : Cardinality(AppliedFor(c)) <= 1
    /\ Len(dbRuns) <= Cardinality({c \in Callbacks : SettledSeen(c) # {}})
    /\ Len(Pushed) <= Cardinality({c \in Callbacks : SettledSeen(c) # {}})
    /\ \A s \in Subs :
        Len(MessagesSent(s)) <= Cardinality({c \in Callbacks : SettledSeen(c) # {}})

\* C2: a comment is created only upon a confirmed settlement of its invoice.
\* Every insert issued, every comment pushed on the feed since startup and
\* every MESSAGE sent belongs to an application of an invocation whose query
\* parsed and passed every check, for which an invoice was created and
\* answered, and whose listener had handled a confirmed event by then.
C2_OnlyOnSettlement ==
    /\ HistoryAgrees
    /\ SubSeq(messages, 1, SeedLen) \in {SelectMessages(t) : t \in InitialTables}
    /\ \A i \in DOMAIN applied :
        LET c == applied[i].id IN
        /\ IsSome(query[c]) /\ ~ParseThrows(Get(query[c]))
        /\ IsSome(ctx[c]) /\ Validate(Get(ctx[c])) = None
        /\ IsSome(invoice[c]) /\ IsPayReply(reply[c])
        /\ Cardinality(SettledSeen(c)) >= Cardinality({j \in AppliedFor(c) : j <= i})
        /\ \E k \in DOMAIN observed : observed[k].id = c /\ observed[k].is_confirmed

C2_Witness ==
    /\ applied # <<>>
    /\ \E s \in Subs : MessagesSent(s) # <<>>
    /\ Len(dbRuns) >= 1 /\ Len(messages) >= 2


\* An amount parameter the offer of /api/send-text allows: a decimal numeral
\* within minSendable..maxSendable.
AdvertisedAmount(param) ==
    /\ Truthy(param)
    /\ \A i \in DOMAIN Get(param) : Get(param)[i] \in Digits
    /\ DecimalValue(Get(param), 0) >= minSendable
    /\ DecimalValue(Get(param), 0) <= maxSendable

\* C4: amount bounds. An invocation whose amount is missing, not a number or
\* outside minSendable..maxSendable is answered 400 with the amount reason
\* and gets no invoice, so every invoice created is for an amount within the
\* bounds. (Stated for the queries that parse; a query whose payerdata does
\* not parse is answered before any check.)
C4_AmountBounds ==
    \A c \in Callbacks :
        (IsSome(query[c]) /\ ~ParseThrows(Get(query[c]))) =>
            /\ ~AdvertisedAmount(Get(query[c]).amount) =>
                /\ invoice[c] = None
                /\ IsSome(reply[c]) => reply[c] = Some(ErrorReply(AmountReason))
            /\ IsSome(invoice[c]) =>
                /\ Get(invoice[c]).mtokens >= minSendable
                /\ Get(invoice[c]).mtokens <= maxSendable

\* A comment parameter the handler must refuse: absent, empty or too long.
RefusedComment(param) == ~Truthy(param) \/ Len(Get(param)) > commentAllowed

\* C5: comment length. An invocation whose comment is absent, empty or
\* longer than 144 characters is answered 400 with a comment reason and gets
\* no invoice, so the comment body of every applied comment has 1 to 144
\* characters. (The amount is checked first: an amount the offer does not
\* allow may be what the 400 reports.)
C5_CommentLength ==
    /\ \A c \in Callbacks :
        (IsSome(query[c]) /\ RefusedComment(Get(query[c]).comment)) =>
            /\ invoice[c] = None
            /\ IsSome(reply[c])
            /\ \/ reply[c] = Some(ErrorReply(MissingReason))
               \/ reply[c] = Some(ErrorReply(LengthReason))
               \/ /\ ~AdvertisedAmount(Get(query[c]).amount)
                  /\ reply[c] = Some(ErrorReply(AmountReason))
    /\ \A i \in DOMAIN applied :
        LET body == Get(Get(query[applied[i].id]).comment) IN
        Len(body) >= 1 /\ Len(body) <= commentAllowed


\* What the feed must show for a query: the payer's name, if one was given,
\* the separator, and the comment.
ExpectedText(q) ==
    LET body == Get(q.comment)
        raw  == q.payerdata
        name == IF Truthy(raw) /\ IsNameObject(Get(raw))
                THEN SubSeq(Get(raw), Len(JsonNameOpen) + 1, Len(Get(raw)) - 2)
                ELSE <<>>
    IN  IF name # <<>> THEN name \o NameSeparator \o body ELSE body

\* Application i is complete: its row is on the feed, its insert was issued
\* and every connection registered when it was made was sent its MESSAGE.
Complete(i) ==
    /\ messages[SeedLen + i] = applied[i].row
    /\ dbRuns[i].row = applied[i].row
    /\ \A s \in applied[i].users :
        \E k \in DOMAIN sent[s] :
            sent[s][k].type = "MESSAGE" /\ sent[s][k].data = applied[i].row

\* A confirmed event of invocation c is emitted and its listener has not run.
SettledPending(c) ==
    \E k \in DOMAIN streamQ : streamQ[k].id = c /\ streamQ[k].is_confirmed

AppliedComplete(c) ==
    \E i \in AppliedFor(c) :
        /\ applied[i].row.text = ExpectedText(Get(query[c]))
        /\ Complete(i)

\* C3: liveness of application. When the stream of an invoice has emitted a
\* confirmed event, the comment of its invocation is eventually on the feed,
\* its insert is issued and its MESSAGE is sent to every connection that was
\* registered when the listener ran.
C3_EventuallyApplied ==
    \A c \in Callbacks : SettledPending(c) ~> AppliedComplete(c)

C3_Witness ==
    \E c \in Callbacks :
        /\ AppliedComplete(c)
        /\ \E i \in AppliedFor(c) : Cardinality(applied[i].users) = 2

\* C6: no cross-contamination. Whatever the order in which the invoices of
\* two invocations settle, each application carries the comment and the
\* payer name of its own invocation, and each invoice its own amount.
C6_NoCrossContamination ==
    /\ \A i \in DOMAIN applied :
        /\ applied[i].row.text = ExpectedText(Get(query[applied[i].id]))
        /\ Complete(i)
    /\ \A c \in Callbacks :
        IsSome(invoice[c]) =>
            /\ Get(invoice[c]).id = c
            /\ Num(Get(invoice[c]).mtokens) = parseInt(Get(Get(query[c]).amount))

C6_Witness ==
    /\ Len(applied) = 2 /\ applied[1].id = 2 /\ applied[2].id = 1
    /\ Get(query[1]).comment # Get(query[2]).comment
    /\ Get(query[1]).payerdata # Get(query[2]).payerdata
    /\ Get(query[1]).amount # Get(query[2]).amount
    /\ applied[1].row.text # applied[2].row.text

\* The invoices whose confirmed events were emitted, in the order of emission.
SettledIds ==
    SelectSeq2([k \in DOMAIN observed |-> observed[k].id],
               {k \in DOMAIN observed : observed[k].is_confirmed}, 1)

\* C7: application order follows settlement order. The applications are made
\* in the order in which the confirmed events were observed, whatever the
\* order of the invocations: the feed, the inserts and the MESSAGE events of
\* every connection list the comments in that order.
C7_SettlementOrder ==
    /\ Len(applied) <= Len(SettledIds)
    /\ \A i \in DOMAIN applied : applied[i].id = SettledIds[i] /\ Complete(i)
    /\ Pushed = [i \in DOMAIN applied |-> applied[i].row]
    /\ [i \in DOMAIN dbRuns |-> dbRuns[i].row] = [i \in DOMAIN applied |-> applied[i].row]
    /\ \A s \in Subs :
        MessagesSent(s) =
            SelectSeq2([i \in DOMAIN applied |-> Message(applied[i].row)],
                       {i \in DOMAIN applied : s \in applied[i].users}, 1)

C7_Witness ==
    /\ SettledIds = <<2, 1>>
    /\ Len(applied) = 2
    /\ applied[1].row # applied[2].row
    /\ \E s \in Subs : s \in applied[1].users /\ s \in applied[2].users


\* The listener runs on an event that is not confirmed.
HandlesUnconfirmed ==
    /\ streamQ # <<>>
    /\ ~Head(streamQ).is_confirmed
    /\ streamQ' = Tail(streamQ)

\* C8: an event that is not confirmed causes no transition. The step in
\* which the listener handles it leaves the table, the pending inserts, the
\* feed, the set of connections, what they were sent and the state of every
\* invocation as they were.
C8_UnconfirmedIgnored ==
    [][HandlesUnconfirmed =>
         UNCHANGED <<messages, table, dbRuns, socketUsers, opened, sent,
                     query, pc, ctx, reply, invoice, applied>>]_vars

C8_Witness ==
    \E c \in Callbacks :
        /\ \E k \in DOMAIN log[c] : log[c][k] = "unsettled"
        /\ SettledSeen(c) = {}
        /\ applied = <<>> /\ dbRuns = <<>> /\ socketUsers # {}
        /\ \A s \in Subs : MessagesSent(s) = <<>>

\* The events of invocation c the streams have emitted.
EventsOf(c) == {k \in DOMAIN observed : observed[k].id = c}

\* The history of an invocation that got its invoice starts with these.
AnsweredFirst == <<"invoice", "response", "subscribe", "listen">>

\* C9: response precedes settlement. Once createInvoice has resolved, the
\* response with the payment request of that invoice is sent, before
\* subscribeToInvoice is called, before the listener is attached, before any
\* event of the invoice is emitted and before any comment is applied for it.
C9_ResponseFirst ==
    \A c \in Callbacks :
        /\ IsSome(invoice[c]) <=> pc[c] \in {"subscribe", "waiting"}
        /\ IsSome(invoice[c]) => reply[c] = Some(PayReply(Get(invoice[c])))
        /\ IsPayReply(reply[c]) =>
            /\ IsSome(invoice[c])
            /\ Get(reply[c]).pr = Get(invoice[c]).request
        /\ Len(log[c]) <= Len(AnsweredFirst) =>
            log[c] = SubSeq(AnsweredFirst, 1, Len(log[c]))
        /\ Len(log[c]) > Len(AnsweredFirst) =>
            SubSeq(log[c], 1, Len(AnsweredFirst)) = AnsweredFirst
        /\ (EventsOf(c) # {} \/ AppliedFor(c) # {}) =>
            /\ IsPayReply(reply[c])
            /\ Len(log[c]) >= Len(AnsweredFirst)

C9_Witness ==
    \E c \in Callbacks :
        /\ pc[c] = "subscribe"
        /\ IsPayReply(reply[c])
        /\ EventsOf(c) = {}
        /\ log[c] = <<"invoice", "response", "subscribe">>

\* An invocation that failed: a check failed, its query did not parse or
\* createInvoice rejected.
Failed(c) == IsErrorReply(reply[c])

\* C10: synchronous failures mutate nothing. The step in which an invocation
\* is answered with an error leaves the feed, the table, the inserts, the
\* connections and the streams as they were; the invocation has no invoice
\* and no subscription, stays where it is for ever, and no event is emitted
\* and no comment applied for it.
C10_FailureMutatesNothing ==
    /\ [][\A c \in Callbacks :
            (~Failed(c) /\ Failed(c)') =>
                UNCHANGED <<messages, table, dbRuns, socketUsers, opened, sent,
                            streamQ, observed, invoice, log, applied>>]_vars
    /\ [][\A c \in Callbacks :
            Failed(c) => /\ pc'[c] = pc[c]
                         /\ reply'[c] = reply[c]
                         /\ invoice'[c] = invoice[c]]_vars
    /\ [](\A c \in Callbacks :
            Failed(c) => /\ pc[c] \in {"returned", "thrown"}
                         /\ invoice[c] = None
                         /\ log[c] = <<>>
                         /\ EventsOf(c) = {}
                         /\ AppliedFor(c) = {})

C10_Witness ==
    \E c, d \in Callbacks :
        /\ reply[c] = Some(ErrorReply(AmountReason))
        /\ reply[d] = Some(ThrownReply(UpstreamMessage))
        /\ socketUsers # {}

\* GET /api/messages
apiMessages == [messages |-> messages]

\* The rows the table held when the process started: its rows but those the
\* inserts of this run have added.
InitialTable ==
    SubSeq(table, 1,
           Len(table) - Cardinality({i \in DOMAIN dbRuns : dbRuns[i].status = "done"}))

\* The comments that exist, in application order: those of earlier runs, then
\* those applied in this run.
Comments == InitialTable \o [i \in DOMAIN applied |-> applied[i].row]

\* The most recent n elements of all.
MostRecent(all, n) == SubSeq(all, Len(all) - Min(Len(all), n) + 1, Len(all))

\* C11: bounded feed window. At startup and after any number of applied
\* comments the feed /api/messages returns has at most 1000 comments, in
\* application order: all of them while 1000 or fewer exist, the most recent
\* 1000 otherwise.
C11_FeedWindow ==
    /\ Len(apiMessages.messages) <= LIMIT
    /\ apiMessages.messages = MostRecent(Comments, LIMIT)

\* The values of the NUM_USERS events connection s was sent, in order.
NumUsersSeen(s) ==
    SelectSeq2([k \in DOMAIN sent[s] |-> sent[s][k].data],
               {k \in DOMAIN sent[s] : sent[s][k].type = "NUM_USERS"}, 1)

\* A connection is opened; a connection is closed.
Connects    == opened' = opened + 1
Disconnects == socketUsers' # socketUsers /\ socketUsers' \subseteq socketUsers

FailedRuns == {i \in DOMAIN dbRuns : dbRuns[i].status = "failed"}

\* C14: persistence failure is best-effort. Once the insert of a comment has
\* failed, and from then on, the comment is on the feed where the listener
\* pushed it, and every connection registered when the listener ran was sent
\* its MESSAGE; the table does not hold it.
C14_BestEffort ==
    /\ SeedLen >= 0
    /\ Len(applied) = Len(dbRuns)
    /\ Len(table) = Len(InitialTable) + Len(dbRuns) - Cardinality(FailedRuns)
                    - Cardinality({i \in DOMAIN dbRuns : dbRuns[i].status = "pending"})
    /\ \A i \in FailedRuns :
        /\ applied[i].row = dbRuns[i].row
        /\ messages[SeedLen + i] = dbRuns[i].row
        /\ \A s \in applied[i].users :
            \E k \in DOMAIN sent[s] : sent[s][k] = Message(dbRuns[i].row)

\* The first insert failed, with a connection registered, and a later
\* comment was applied and stored.
C14_Witness ==
    /\ Len(dbRuns) = 2
    /\ dbRuns[1].status = "failed" /\ dbRuns[2].status = "done"
    /\ applied[1].users # {}
    /\ Len(messages) = SeedLen + 2 /\ messages[SeedLen + 1] = dbRuns[1].row
    /\ Len(table) = Len(InitialTable) + 1

\* The listener publishes a confirmed comment while a registered connection
\* is not open any more: the send to that connection fails.
PublishFails ==
    /\ streamQ # <<>>
    /\ Head(streamQ).is_confirmed
    /\ streamQ' = Tail(streamQ)
    /\ socketUsers \cap closing # {}

\* C13: broadcast failure isolation. When the listener publishes a comment
\* and the send to one connection fails, that connection is removed from the
\* set and the others stay, every other registered connection is sent the
\* MESSAGE of the comment, and the insert is issued and the comment pushed
\* on the feed as without the failure.
C13_BroadcastIsolation ==
    [][PublishFails =>
         /\ socketUsers' = socketUsers \ closing
         /\ Len(dbRuns') = Len(dbRuns) + 1
         /\ messages' = Append(messages, dbRuns'[Len(dbRuns')].row)
         /\ \A s \in socketUsers \ closing :
             sent'[s] = Append(sent[s], Message(dbRuns'[Len(dbRuns')].row))]_vars

\* A step of what an invocation leaves running once its response is sent:
\* the subscription, the stream, the listener, an insert.
AfterResponse ==
    /\ \E c \in Callbacks : IsPayReply(reply[c])
    /\ ~(Connects \/ Disconnects)

\* C15: failures after the response are contained. Whatever fails once the
\* response of an invocation was sent (the subscription, the stream, an
\* insert, a send of the listener to a connection), the process does not
\* exit, so it goes on accepting invocations and connections, and a response
\* that was sent is never changed.
C15_FailuresContained ==
    /\ [][AfterResponse => ~terminated']_vars
    /\ [][\A c \in Callbacks : IsSome(reply[c]) => reply'[c] = reply[c]]_vars

\* A payerdata parameter that is present and is not structured data.
MalformedPayerdata(param) == Truthy(param) /\ JsonThrows(Get(param))

\* The first rule a query violates, in the order amount-parse, amount-range,
\* comment-present, comment-length, payer-data.
EarliestViolated(q) ==
    IF ~Truthy(q.amount) \/ parseInt(Get(q.amount)).kind # "number"
       \/ parseInt(Get(q.amount)).v < 0 THEN "amount"
    ELSE IF ~AdvertisedAmount(q.amount) THEN "amount"
    ELSE IF ~Truthy(q.comment) THEN "comment-present"
    ELSE IF Len(Get(q.comment)) > commentAllowed THEN "comment-length"
    ELSE IF MalformedPayerdata(q.payerdata) THEN "payer-data"
    ELSE "none"

\* The rule a response reports as violated.
Reported(r) ==
    IF ~IsErrorReply(r) THEN "none"
    ELSE IF Get(r).reason = AmountReason THEN "amount"
    ELSE IF Get(r).reason = MissingReason THEN "comment-present"
    ELSE IF Get(r).reason = LengthReason THEN "comment-length"
    ELSE IF Get(r).reason = ParseMessage THEN "payer-data"
    ELSE "upstream"

\* C16: order of the validation rules. An invocation whose query violates
\* one or several rules is answered with the failure of the earliest rule it
\* violates, in the order amount-parse, amount-range, comment-present,
\* comment-length, payer-data, and gets no invoice.
C16_ValidationOrder ==
    \A c \in Callbacks :
        (IsSome(query[c]) /\ EarliestViolated(Get(query[c])) # "none") =>
            /\ pc[c] # "createInvoice"
            /\ invoice[c] = None
            /\ IsSome(reply[c]) => Reported(reply[c]) = EarliestViolated(Get(query[c]))

\* C17: invalid payer data is a validation failure. An invocation whose
\* payerdata is present and does not parse is answered 400 with status ERROR
\* and a reason, never with a 5xx, and gets no invoice.
C17_InvalidPayerData ==
    \A c \in Callbacks :
        (IsSome(query[c]) /\ MalformedPayerdata(Get(query[c]).payerdata)) =>
            /\ pc[c] # "createInvoice"
            /\ invoice[c] = None
            /\ IsSome(reply[c])
            /\ Get(reply[c]).code = 400
            /\ Get(reply[c]).status = "ERROR"

\* text ends with body.
EndsWith(text, body) ==
    /\ Len(text) >= Len(body)
    /\ SubSeq(text, Len(text) - Len(body) + 1, Len(text)) = body

\* C18: composed comment text. For each application the row of the insert,
\* the row pushed on the feed and the row of the MESSAGE sent to each
\* registered connection are the same, text and timestamp; the text is the
\* payer's name, the separator and the comment when a name was given, the
\* comment alone otherwise, and ends with the comment in both cases.
C18_ComposedText ==
    /\ SeedLen >= 0
    /\ Len(dbRuns) = Len(applied)
    /\ \A i \in DOMAIN applied :
        LET q    == Get(query[applied[i].id])
            body == Get(q.comment)
            row  == dbRuns[i].row
        IN  /\ messages[SeedLen + i] = row
            /\ \A s \in applied[i].users :
                \E k \in DOMAIN sent[s] :
                    sent[s][k].type = "MESSAGE" /\ sent[s][k].data = row
            /\ \A s \in Sockets : \A k \in DOMAIN sent[s] :
                sent[s][k].type = "MESSAGE" =>
                    \E j \in DOMAIN dbRuns : sent[s][k].data = dbRuns[j].row
            /\ row.text = ExpectedText(q)
            /\ EndsWith(row.text, body)
            /\ HasName(Get(ctx[applied[i].id]).payerdata) \/ row.text = body

\* The comment of a payer named bob, applied and sent to two connections.
C18_Witness ==
    /\ Len(applied) = 1
    /\ Cardinality(applied[1].users) = 2
    /\ applied[1].row.text = <<"b", "o", "b", ":", " ", " ", "h", "i">>
    /\ \A s \in applied[1].users : MessagesSent(s) = <<Message(dbRuns[1].row)>>
    /\ messages = <<OldRow, dbRuns[1].row>>

\* C19: the feed is append-only during a run. Every step leaves the feed
\* /api/messages returns as it was or extends it at its end, so an earlier
\* feed is a prefix of every later one, with the same texts and timestamps;
\* the feed lists the comments of the run in the order their inserts were
\* issued.
C19_AppendOnly ==
    /\ [][/\ Len(apiMessages.messages') >= Len(apiMessages.messages)
          /\ SubSeq(apiMessages.messages', 1, Len(apiMessages.messages))
                = apiMessages.messages]_vars
    /\ [](/\ SeedLen >= 0
          /\ Pushed = [i \in DOMAIN dbRuns |-> dbRuns[i].row])

\* Two comments of different invocations on the feed after the seed, both
\* stored.
C19_Witness ==
    /\ Len(applied) = 2 /\ applied[1].id # applied[2].id
    /\ messages = <<OldRow, applied[1].row, applied[2].row>>
    /\ applied[1].row # applied[2].row
    /\ \A i \in DOMAIN dbRuns : dbRuns[i].status = "done"

\* The tokens issued; those whose timer has fired; those for which a comment
\* was applied; the live ones.
Issued  == {issued[i] : i \in DOMAIN issued}
Expired == Issued \ timers
Removed == {applied[i].callback : i \in DOMAIN applied}
Live    == (Issued \ Expired) \ Removed

\* Invocation c arrives in this step.
ArrivesNow(c) == pc[c] = "idle" /\ pc'[c] # "idle"

\* C20: callback-token gate. Each offer issues a token distinct from all
\* earlier ones, and the set of live tokens holds the tokens issued whose
\* timer has not fired and for which no comment was applied. An invocation
\* goes on to create an invoice only if the token it presents is live when
\* it arrives; with any other token, one for which a comment was applied
\* included, it is answered 400 and never gets an invoice.
C20_TokenGate ==
    /\ [](/\ \A i, j \in DOMAIN issued : i # j => issued[i] # issued[j]
          /\ callbacks = Live
          /\ \A c \in Callbacks :
              /\ IsSome(invoice[c]) => Get(query[c]).callback \in Issued
              /\ IsErrorReply(reply[c]) => invoice[c] = None)
    /\ [][\A c \in Callbacks :
            ArrivesNow(c) =>
                LET t == Get(query'[c]).callback IN
                /\ pc'[c] = "createInvoice" => t \in Live
                /\ t \notin Live =>
                    /\ reply'[c] = Some(ErrorReply(InvalidCallbackReason))
                    /\ pc'[c] = "returned"
                /\ t \in Removed => pc'[c] = "returned"]_vars
    /\ [][\A c \in Callbacks :
            pc[c] = "returned" => pc'[c] = "returned" /\ invoice'[c] = None]_vars

\* The first invocation got an invoice with the first token and its comment
\* was applied; the second presented the same token later and was refused.
C20_Witness ==
    /\ Len(applied) = 1 /\ applied[1].id = 1 /\ applied[1].callback = Token(0)
    /\ IsSome(invoice[1]) /\ IsPayReply(reply[1])
    /\ IsSome(query[2]) /\ Get(query[2]).callback = Token(0)
    /\ Token(0) \in timers
    /\ reply[2] = Some(ErrorReply(InvalidCallbackReason))
    /\ invoice[2] = None
    /\ messages = <<<<"o", "l", "d">>, <<"h", "i">>>>

=============================================================================
